---- MODULE Spec2Model ----
(***************************************************************************)
(* A model of buster/application/poster.py: the permalink resolver         *)
(* (get_link_for_item), the thumbnail engine (find_image_in_* and the      *)
(* check_thumbnail gate inside prepare_entry_from_item), the post composer *)
(* (format_for_adn) and the reconstructor (build_html_from_post).          *)
(*                                                                         *)
(* Text is a sequence of one-character strings, so that len(), slicing,    *)
(* str.find and the "in" test are computed on the characters.  A string of *)
(* several characters inside such a sequence is a markup token or a        *)
(* sentinel, never text.                                                   *)
(***************************************************************************)
EXTENDS Integers, Sequences, FiniteSets, TLC

\* ------------------------------------------------------------------ bounds
\* passes (prepare_entry_from_item, format_for_adn, build_html_from_post) run for one feed
MaxPasses == 2

\* ------------------------------------------------------- program constants
MAX_CHARS == 256
MIN_IMAGE_DIMENSION == 200
MAX_IMAGE_DIMENSION == 1000
max_link_chars == 40
SUMMARY_CHARS == 200
TITLE_STORE_CHARS == 499
FIELD_STORE_CHARS == 500

\* ------------------------------------------------------------ Python values
\* None, as a value no text is equal to
None == <<"None">>

\* Python truthiness of an optional string: None and '' are false
Falsy(s) == s = None \/ s = <<>>

\* a call's outcome: a returned value, or the name of the exception it raised
Ret(v) == [exc |-> "", ret |-> v]
Exc(name) == [exc |-> name, ret |-> None]

\* ------------------------------------------------------------ str methods
\* s[i:j] with 0-based Python indices 0 <= i <= j
Slice(s, i, j) == SubSeq(s, i + 1, IF j > Len(s) THEN Len(s) ELSE j)

\* s[i:]
SliceFrom(s, i) == SubSeq(s, i + 1, Len(s))

\* sub occurs in s at the 0-based index i
OccursAt(s, sub, i) == i >= 0 /\ i + Len(sub) <= Len(s) /\ SubSeq(s, i + 1, i + Len(sub)) = sub

\* s.find(sub, start): the lowest 0-based index >= start where sub occurs, else -1
StrFind(s, sub, start) ==
    LET hits == {i \in start..(Len(s) - Len(sub)) : OccursAt(s, sub, i)}
    IN  IF hits = {} THEN -1 ELSE CHOOSE i \in hits : \A j \in hits : i <= j

\* sub in s
StrIn(sub, s) == StrFind(s, sub, 0) > -1

\* s.rfind(ch): the highest 0-based index of the character ch, else -1
StrRFind(s, ch) ==
    LET hits == {i \in 0..(Len(s) - 1) : s[i + 1] = ch}
    IN  IF hits = {} THEN -1 ELSE CHOOSE i \in hits : \A j \in hits : i >= j

\* n copies of the character ch
Rep(ch, n) == [i \in 1..n |-> ch]

\* ------------------------------------------------------------- urlparse
\* the characters that end a netloc
NetlocDelims == {"/", "?", "#"}

\* urlparse(url).netloc of a text url: what follows "scheme://" up to the next
\* delimiter, '' when the url has no "//" after its scheme
netloc(url) ==
    LET colon == StrFind(url, <<":">>, 0)
        rest  == IF colon > 0 THEN SliceFrom(url, colon + 1) ELSE url
        body  == SliceFrom(rest, 2)
        ends  == {i \in 0..(Len(body) - 1) : body[i + 1] \in NetlocDelims}
        stop  == IF ends = {} THEN Len(body) ELSE CHOOSE i \in ends : \A j \in ends : i <= j
    IN  IF Len(rest) >= 2 /\ rest[1] = "/" /\ rest[2] = "/" THEN Slice(body, 0, stop) ELSE <<>>

\* ------------------------------------------------------ get_link_for_item
\* lines 160-165: with no direct link, every alternate link with an href overwrites
\* the candidate (the loop has no break)
RECURSIVE ScanLinks(_, _)
ScanLinks(links, main) ==
    IF links = <<>> THEN main
    ELSE ScanLinks(Tail(links), IF Falsy(Head(links).href) THEN main ELSE Head(links).href)

main_item_link(item) ==
    IF Falsy(item.link) THEN ScanLinks(item.links, item.link) ELSE item.link

\* lines 187-197: the first alternate link on the feed's own domain, None when there is none
RECURSIVE SameDomainLink(_, _)
SameDomainLink(links, feed_netloc) ==
    IF links = <<>> THEN None
    ELSE IF ~Falsy(Head(links).href) /\ netloc(Head(links).href) = feed_netloc
         THEN Head(links).href
         ELSE SameDomainLink(Tail(links), feed_netloc)

\* soup.find('a', {'rel': rel}): the first anchor of the summary with that rel, else None
RECURSIVE FindRel(_, _)
FindRel(anchors, rel) ==
    IF anchors = <<>> THEN [rel |-> "", href |-> None, found |-> FALSE]
    ELSE IF Head(anchors).rel = rel
         THEN [rel |-> rel, href |-> Head(anchors).href, found |-> TRUE]
         ELSE FindRel(Tail(anchors), rel)

\* lines 199-232: the links in the summary, tried after the alternate links failed
link_from_summary(feed_url, item, main) ==
    LET anchors   == item.anchors
        permalink == FindRel(anchors, "permalink")
        bookmark  == FindRel(anchors, "bookmark")
        last_href == anchors[Len(anchors)].href
    IN  IF anchors = <<>> THEN Ret(main)
        ELSE IF permalink.found /\ ~Falsy(permalink.href) THEN Ret(permalink.href)
        ELSE IF bookmark.found /\ ~Falsy(bookmark.href) THEN Ret(bookmark.href)
        ELSE IF last_href = None THEN Exc("AttributeError")
        ELSE IF netloc(last_href) = netloc(feed_url) THEN Ret(last_href)
        ELSE Ret(main)

get_link_for_item(f, item) ==
    LET main == main_item_link(item)
        alt  == SameDomainLink(item.links, netloc(f.feed_url))
    IN  IF ~f.linked_list_mode THEN Ret(main)
        ELSE IF Falsy(f.feed_url) THEN Ret(main)
        ELSE IF main = None THEN Exc("AttributeError")
        ELSE IF netloc(f.feed_url) = netloc(main) THEN Ret(main)
        ELSE IF alt # None THEN Ret(alt)
        ELSE link_from_summary(f.feed_url, item, main)

\* ------------------------------------------------------------ thumbnails
\* a thumbnail dict as image_dict builds it; NoThumbnail stands for Python's None
\* (no thumbnail found, or no thumbnail keys in the entry's kwargs)
NoThumbnail == [thumbnail_image_url |-> None, thumbnail_image_width |-> 0, thumbnail_image_height |-> 0]

image_fits(w, h) ==
    /\ w # 0
    /\ h # 0
    /\ w >= MIN_IMAGE_DIMENSION
    /\ w <= MAX_IMAGE_DIMENSION
    /\ h >= MIN_IMAGE_DIMENSION
    /\ h <= MAX_IMAGE_DIMENSION

image_dict(url, w, h) ==
    [thumbnail_image_url |-> url, thumbnail_image_width |-> w, thumbnail_image_height |-> h]

\* get_image_from_url: None for no url or a failed fetch; the Image object otherwise,
\* also when the payload is no image (NotImageError is passed over and the object,
\* whose .width raises NotImageError again, is returned)
NoImage == [kind |-> "none", width |-> 0, height |-> 0]

get_image_from_url(url, fetched) ==
    IF Falsy(url) THEN NoImage
    ELSE IF fetched.kind = "exception" THEN NoImage
    ELSE fetched

\* find_image_in_rss_item: the first media_thumbnail descriptor that fits.
\* A descriptor is [url, width, height, numeric]: width/height 0 when the key is
\* absent, numeric FALSE when int() of an attribute raises ValueError.
RECURSIVE find_image_in_rss_item(_, _, _)
find_image_in_rss_item(media_thumbnails, remote_fetch, fetched) ==
    IF media_thumbnails = <<>> THEN Ret(NoThumbnail)
    ELSE LET thumb == Head(media_thumbnails)
             w0    == thumb.width
             h0    == thumb.height
             fetch == (w0 = 0 \/ h0 = 0) /\ remote_fetch
             image == get_image_from_url(thumb.url, fetched)
             w     == IF fetch /\ image.kind = "image" THEN image.width ELSE w0
             h     == IF fetch /\ image.kind = "image" THEN image.height ELSE h0
         IN  IF ~thumb.numeric THEN Exc("ValueError")
             ELSE IF fetch /\ thumb.url = None THEN Exc("KeyError")
             ELSE IF fetch /\ image.kind = "not_image" THEN Exc("NotImageError")
             ELSE IF image_fits(w, h)
                  THEN IF thumb.url = None THEN Exc("KeyError") ELSE Ret(image_dict(thumb.url, w, h))
                  ELSE find_image_in_rss_item(Tail(media_thumbnails), remote_fetch, fetched)

\* lines 300-321 of find_image_in_html: the first <img> of the summary whose stated
\* dimensions fit. An img is [src, width, height, numeric]: width/height as the
\* attributes or the style give them (0 when neither does).
RECURSIVE first_fitting_img(_)
first_fitting_img(imgs) ==
    IF imgs = <<>> THEN Ret(NoThumbnail)
    ELSE LET image == Head(imgs)
         IN  IF image.width = 0 \/ image.height = 0 THEN first_fitting_img(Tail(imgs))
             ELSE IF ~image.numeric THEN first_fitting_img(Tail(imgs))
             ELSE IF image_fits(image.width, image.height)
                  THEN IF image.src = None THEN Exc("KeyError")
                       ELSE Ret(image_dict(image.src, image.width, image.height))
                  ELSE first_fitting_img(Tail(imgs))

find_image_in_html(imgs, remote_fetch, fetched) ==
    LET stated == first_fitting_img(imgs)
        image  == get_image_from_url(Head(imgs).src, fetched)
    IN  IF stated.exc # "" \/ stated.ret # NoThumbnail THEN stated
        ELSE IF imgs # <<>> /\ remote_fetch
             THEN IF image.kind = "not_image" THEN Exc("NotImageError")
                  ELSE IF image.kind = "image" /\ image_fits(image.width, image.height)
                       THEN Ret(image_dict(Head(imgs).src, image.width, image.height))
                       ELSE Ret(NoThumbnail)
             ELSE Ret(NoThumbnail)

\* find_image_in_meta_tags. The og/twitter image of the page is
\* [kind, url, width, height, complete]: kind "none", "url" (a bare url) or "dict"
\* (parse_meta_data nested og:image:width / og:image:height under it); complete
\* FALSE when the dict lacks width or height or they are no numbers.
find_image_in_meta_tags(meta_image, remote_fetch, fetched) ==
    LET image == get_image_from_url(meta_image.url, fetched)
    IN  IF meta_image.kind = "dict" /\ ~Falsy(meta_image.url)
        THEN IF meta_image.complete
             THEN Ret(image_dict(meta_image.url, meta_image.width, meta_image.height))
             ELSE Exc("KeyError")
        ELSE IF meta_image.kind = "dict" /\ remote_fetch THEN Exc("AttributeError")
        ELSE IF meta_image.kind = "url" /\ remote_fetch
             THEN IF image.kind = "image" /\ image_fits(image.width, image.height)
                  THEN Ret(image_dict(meta_image.url, image.width, image.height))
                  ELSE Ret(NoThumbnail)
             ELSE Ret(NoThumbnail)

\* parse_images: the <img> elements of the fetched page that state fitting dimensions
RECURSIVE parse_images(_)
parse_images(imgs) ==
    IF imgs = <<>> THEN <<>>
    ELSE LET image == Head(imgs)
             rest  == parse_images(Tail(imgs))
         IN  IF ~image.numeric \/ image.width = 0 \/ image.height = 0 THEN rest
             ELSE IF ~Falsy(image.src) /\ image_fits(image.width, image.height)
                  THEN <<image_dict(image.src, image.width, image.height)>> \o rest
                  ELSE rest

\* get_meta_data_for_url: {} when the fetch raises, else the parsed page
NoMetaImage == [kind |-> "none", url |-> None, width |-> 0, height |-> 0, complete |-> FALSE]

get_meta_data_for_url(page) ==
    IF page.fetch = "exception"
    THEN [has_data |-> FALSE, meta_image |-> NoMetaImage, images_in_html |-> <<>>]
    ELSE [has_data |-> TRUE, meta_image |-> page.meta_image, images_in_html |-> parse_images(page.imgs)]

\* utils.dict_hash: a deterministic fingerprint of the thumbnail's fields
dict_hash(thumbnail) ==
    <<"hash", thumbnail.thumbnail_image_url, thumbnail.thumbnail_image_width,
      thumbnail.thumbnail_image_height>>

\* check_thumbnail: [valid, last_image_hash] = the gate's answer and the fingerprint
\* the feed holds after it
check_thumbnail(f, thumbnail) ==
    LET thumbnail_hash == dict_hash(thumbnail)
    IN  IF thumbnail_hash # f.last_image_hash
        THEN [valid |-> TRUE, last_image_hash |-> thumbnail_hash]
        ELSE [valid |-> FALSE, last_image_hash |-> f.last_image_hash]

\* ------------------------------------------------------------------ utils
\* utils.ellipse_text: text unchanged when it fits, else cut back to a word boundary
\* and closed with an ellipsis marker, at most max_chars characters in all
EllipsisMarker == <<".", ".", ".">>

ellipse_text(text, max_chars) ==
    IF Len(text) <= max_chars THEN text
    ELSE LET room  == IF max_chars > Len(EllipsisMarker) THEN max_chars - Len(EllipsisMarker) ELSE 0
             cut   == Slice(text, 0, room)
             space == StrRFind(cut, " ")
             kept  == IF space > 0 THEN Slice(cut, 0, space) ELSE cut
         IN  Slice(kept \o EllipsisMarker, 0, max_chars)

utm_medium == <<"u", "t", "m", "_", "m", "e", "d", "i", "u", "m">>
utm_source == <<"u", "t", "m", "_", "s", "o", "u", "r", "c", "e">>
\* urlencode of {'utm_source': 'PourOver', 'utm_medium': 'App.net'}
utm_params ==
    <<"u", "t", "m", "_", "s", "o", "u", "r", "c", "e", "=", "P", "o", "u", "r", "O", "v", "e", "r", "&",
      "u", "t", "m", "_", "m", "e", "d", "i", "u", "m", "=", "A", "p", "p", ".", "n", "e", "t">>

\* utils.append_query_string: the url with the parameters added to its query string
append_query_string(link, params) ==
    link \o (IF StrIn(<<"?">>, link) THEN <<"&">> ELSE <<"?">>) \o params

\* utils.guid_for_item: the item's guid
guid_for_item(item) == item.guid

\* ------------------------------------------------------- format_for_adn
\* a variant of format_link_for_entry that leaves the campaign parameters out
format_link_untagged(f, item) == get_link_for_item(f, item)

\* lines 691-695: the campaign parameters are added unless the link names one
tagged_link(link) ==
    IF Falsy(link) THEN link
    ELSE IF ~StrIn(utm_medium, link) /\ ~StrIn(utm_source, link)
         THEN append_query_string(link, utm_params)
         ELSE link

\* format_link_for_entry, for an entry that carries its feed item
format_link_for_entry(f, item) ==
    LET found == get_link_for_item(f, item)
    IN  IF found.exc # "" THEN found ELSE Ret(tagged_link(found.ret))

\* lines 745-752: sentences are taken in order while the summary has at most 200
\* characters; one that would not fit is passed over
RECURSIVE accumulate_summary(_, _)
accumulate_summary(summary_text, sentances) ==
    IF Len(summary_text) > SUMMARY_CHARS \/ sentances = <<>> THEN summary_text
    ELSE LET joined == summary_text \o <<" ">> \o Head(sentances)
         IN  accumulate_summary(IF Len(joined) <= SUMMARY_CHARS THEN joined ELSE summary_text,
                                Tail(sentances))

\* lines 739-754; sentances is list(splitter.split(strip_html_tags(entry.summary)))
summary_for(f, sentances) ==
    IF ~f.include_summary THEN Ret(<<>>)
    ELSE IF sentances = <<>> THEN Exc("IndexError")
    ELSE Ret(ellipse_text(accumulate_summary(Head(sentances), Tail(sentances)), SUMMARY_CHARS))

has_own_bitly_creds(f) == f.bitly_login # "" /\ f.bitly_api_key # ""

\* lines 757-761: the feed as format_for_adn leaves it
feed_after_format(f) ==
    IF ~has_own_bitly_creds(f) /\ f.format_mode = "TITLE_THEN_LINK"
    THEN [f EXCEPT !.bitly_login = "mixedmedialabs", !.bitly_api_key = "R_a1311cd1785b7da2aedac9703656b0f1"]
    ELSE f

\* get_short_url: the cached short url, else the answer of the shortening service.
\* bitly is [kind, url]: kind "exception" (urlfetch raises), "http_error" (status
\* not 200), "bad_json" (content json.loads rejects), "api_error" (status_code
\* in the body not 200) or "ok".
get_short_url(short_url, bitly) ==
    IF ~Falsy(short_url) THEN Ret(short_url)
    ELSE IF bitly.kind = "exception" THEN Exc("DownloadError")
    ELSE IF bitly.kind = "http_error" THEN Ret(None)
    ELSE IF bitly.kind = "bad_json" THEN Exc("ValueError")
    ELSE IF bitly.kind = "api_error" THEN Ret(None)
    ELSE Ret(bitly.url)

\* a variant of max_chars_for that reserves room for the link but not for the space
max_chars_without_space(f, ellipse_link_text) ==
    IF f.format_mode = "TITLE_THEN_LINK"
    THEN MAX_CHARS - Len(ellipse_link_text)
    ELSE MAX_CHARS

\* lines 768-773
max_chars_for(f, ellipse_link_text) ==
    IF f.format_mode = "TITLE_THEN_LINK"
    THEN MAX_CHARS - Len(<<" ">> \o ellipse_link_text)
    ELSE MAX_CHARS

\* lines 775-781
post_text_for(f, title, summary_text, ellipse_link_text) ==
    LET max_chars == max_chars_for(f, ellipse_link_text)
        with_sum  == IF Len(title) < (max_chars - 40) /\ summary_text # <<>>
                     THEN title \o <<"\n">> \o summary_text
                     ELSE title
        body      == ellipse_text(with_sum, max_chars)
    IN  IF f.format_mode = "TITLE_THEN_LINK" THEN body \o <<" ">> \o ellipse_link_text ELSE body

\* lines 783-786: the (href, link_text) candidates
links_for(f, link, title, ellipse_link_text) ==
    IF f.format_mode = "TITLE_THEN_LINK"
    THEN <<[href |-> link, link_text |-> ellipse_link_text]>>
    ELSE <<[href |-> link, link_text |-> title]>>

\* a variant of link_entities_for that records where the search began as pos
RECURSIVE link_entities_at_search_start(_, _, _)
link_entities_at_search_start(post_text, links, index) ==
    IF links = <<>> THEN <<>>
    ELSE LET text_index == StrFind(post_text, Head(links).link_text, index)
         IN  IF text_index > -1
             THEN <<[url  |-> Head(links).href,
                     text |-> Head(links).link_text,
                     pos  |-> index,
                     len  |-> Len(Head(links).link_text)]>>
                  \o link_entities_at_search_start(post_text, Tail(links), text_index)
             ELSE link_entities_at_search_start(post_text, Tail(links), index)

\* lines 788-800: each candidate is searched from the index of the entity before it
RECURSIVE link_entities_for(_, _, _)
link_entities_for(post_text, links, index) ==
    IF links = <<>> THEN <<>>
    ELSE LET text_index == StrFind(post_text, Head(links).link_text, index)
         IN  IF text_index > -1
             THEN <<[url  |-> Head(links).href,
                     text |-> Head(links).link_text,
                     pos  |-> text_index,
                     len  |-> Len(Head(links).link_text)]>>
                  \o link_entities_for(post_text, Tail(links), text_index)
             ELSE link_entities_for(post_text, Tail(links), index)

\* lines 802-824, the annotations by their type
annotations_for(f, e) ==
    <<"net.app.core.crosspost">>
    \o (IF f.include_thumb /\ e.thumbnail # NoThumbnail THEN <<"net.app.core.oembed:photo">> ELSE <<>>)
    \o (IF f.include_video /\ e.video_oembed THEN <<"net.app.core.oembed:video">> ELSE <<>>)

NoPost == [text |-> <<>>, entities |-> <<>>, annotations |-> <<>>, link |-> None]

\* lines 766-824: the post once the link is chosen
adn_post(f, e, summary_text, link) ==
    LET ellipse_link_text == ellipse_text(link, max_link_chars)
        post_text == post_text_for(f, e.title, summary_text, ellipse_link_text)
    IN  [text        |-> post_text,
         entities    |-> link_entities_for(post_text,
                             links_for(f, link, e.title, ellipse_link_text), 0),
         annotations |-> annotations_for(f, e),
         link        |-> link]

\* lines 739-825 over the answers of the calls format_for_adn makes, in their order
adn_result(f, e, summary, own_link, short) ==
    LET link == IF Falsy(short.ret) THEN own_link.ret ELSE short.ret
        failed(x, w, g) ==
            [exc |-> x, where |-> w, post |-> NoPost, short_url |-> e.short_url, feed |-> g]
    IN  IF summary.exc # "" THEN failed(summary.exc, "format_for_adn", f)
        ELSE IF own_link.exc # "" THEN failed(own_link.exc, "get_link_for_item", f)
        ELSE IF short.exc # "" THEN failed(short.exc, "get_short_url", feed_after_format(f))
        ELSE IF link = None THEN failed("TypeError", "format_for_adn", feed_after_format(f))
        ELSE [exc  |-> "",
              where |-> "",
              feed |-> feed_after_format(f),
              post |-> adn_post(f, e, summary.ret, link),
              short_url |-> IF Falsy(short.ret) THEN e.short_url ELSE short.ret]

\* format_for_adn: [exc, where, post, short_url, feed] = the exception that ended it
\* and the function that raised it, or the post it returns, and the entry's short_url
\* and the feed after it
format_for_adn(f, e, item, bitly) ==
    adn_result(f, e,
               summary_for(f, e.summary),
               format_link_for_entry(f, item),
               IF has_own_bitly_creds(f) \/ f.format_mode = "TITLE_THEN_LINK"
               THEN get_short_url(e.short_url, bitly) ELSE Ret(None))

\* -------------------------------------------------- build_html_from_post
\* markup is kept as tokens between the characters of the text
A_OPEN == "<a href='"
A_TARGET == "' target='_blank'>"
A_CLOSE == "</a>"
BR == "<br>"
SPAN_OPEN == "<span>"
SPAN_CLOSE == "</span>"

entity_text(post, e) == Slice(post.text, e.pos, e.pos + e.len)

link_builder(post, l) == <<A_OPEN>> \o l.url \o <<A_TARGET>> \o entity_text(post, l) \o <<A_CLOSE>>

\* lines 128-131: the dict keeps, per (pos, len), the html of the last entity with that key
RECURSIVE entity_map_for(_, _, _)
entity_map_for(post, entities, map) ==
    IF entities = <<>> THEN map
    ELSE LET e   == Head(entities)
             key == <<e.pos, e.len>>
         IN  entity_map_for(post, Tail(entities),
                 [k \in DOMAIN map \cup {key} |-> IF k = key THEN link_builder(post, e) ELSE map[k]])

\* sorted(entity_map.keys()): by pos, then by len
KeyLess(a, b) == a[1] < b[1] \/ (a[1] = b[1] /\ a[2] < b[2])

RECURSIVE sorted_keys(_)
sorted_keys(keys) ==
    IF keys = {} THEN <<>>
    ELSE LET first == CHOOSE k \in keys : \A o \in keys \ {k} : KeyLess(k, o)
         IN  <<first>> \o sorted_keys(keys \ {first})

\* lines 134-146: the pieces up to and including the last entity, and the index after it
RECURSIVE html_pieces_for(_, _, _, _)
html_pieces_for(post, entity_map, keys, text_idx) ==
    IF keys = <<>> THEN [html |-> <<>>, text_idx |-> text_idx]
    ELSE LET entity_start == Head(keys)[1]
             entity_len   == Head(keys)[2]
             before == IF text_idx # entity_start
                       THEN IF text_idx < entity_start
                            THEN Slice(post.text, text_idx, entity_start) ELSE <<>>
                       ELSE <<>>
             rest   == html_pieces_for(post, entity_map, Tail(keys), entity_start + entity_len)
         IN  [html |-> before \o entity_map[Head(keys)] \o rest.html, text_idx |-> rest.text_idx]

\* html.replace('\n', '<br>')
replace_newlines(html) == [i \in 1..Len(html) |-> IF html[i] = "\n" THEN BR ELSE html[i]]

\* a variant of build_html_from_post that stops after the last entity
build_html_without_tail(post) ==
    LET entity_map == entity_map_for(post, post.entities, <<>>)
        pieces     == html_pieces_for(post, entity_map, sorted_keys(DOMAIN entity_map), 0)
    IN  <<SPAN_OPEN>> \o replace_newlines(pieces.html) \o <<SPAN_CLOSE>>

build_html_from_post(post) ==
    LET entity_map == entity_map_for(post, post.entities, <<>>)
        pieces     == html_pieces_for(post, entity_map, sorted_keys(DOMAIN entity_map), 0)
        html       == pieces.html \o SliceFrom(post.text, pieces.text_idx)
    IN  <<SPAN_OPEN>> \o replace_newlines(html) \o <<SPAN_CLOSE>>

\* ------------------------------------------------ prepare_entry_from_item
\* lines 523-533: the rss source, then the summary's <img>s; an exception in either
\* ends the search with no thumbnail
local_thumbnail(f, item, e) ==
    LET rss     == IF "rss" \notin f.image_strategy_blacklist
                   THEN find_image_in_rss_item(item.media_thumbnail, e.remote_fetch, e.fetched)
                   ELSE Ret(NoThumbnail)
        content == IF "content" \notin f.image_strategy_blacklist
                   THEN find_image_in_html(item.imgs, e.remote_fetch, e.fetched)
                   ELSE Ret(NoThumbnail)
    IN  IF rss.exc # "" THEN NoThumbnail
        ELSE IF rss.ret # NoThumbnail THEN rss.ret
        ELSE IF content.exc # "" THEN NoThumbnail
        ELSE content.ret

\* lines 485-505: the item is skipped (the local phase returns None)
item_skipped(item, link) ==
    \/ Len(guid_for_item(item)) > FIELD_STORE_CHARS
    \/ Falsy(link)
    \/ Len(link) > FIELD_STORE_CHARS
    \/ Falsy(guid_for_item(item))

\* lines 554-569: the page's data, then the meta tags (only with no thumbnail attached
\* by the local phase), then the first image of the page
page_data_for(e) ==
    IF e.remote_fetch THEN get_meta_data_for_url(e.page)
    ELSE [has_data |-> FALSE, meta_image |-> NoMetaImage, images_in_html |-> <<>>]

remote_thumbnail(f, has_thumbnail, e) ==
    LET page_data == page_data_for(e)
        meta == IF ~has_thumbnail /\ "meta" \notin f.image_strategy_blacklist
                THEN find_image_in_meta_tags(page_data.meta_image, e.remote_fetch, e.fetched)
                ELSE Ret(NoThumbnail)
        thumbnail == IF meta.exc # "" THEN NoThumbnail ELSE meta.ret
    IN  IF "html" \notin f.image_strategy_blacklist /\ thumbnail = NoThumbnail
           /\ page_data.images_in_html # <<>>
        THEN page_data.images_in_html[1]
        ELSE thumbnail

\* find_video_oembed, under the try of lines 578-585: the embed data, when the
\* summary embeds a video and the lookup answers 200 with JSON
video_oembed_for(f, e) == f.include_video /\ e.oembed = "ok"

\* ------------------------------------------------------------------ inputs
L_A == <<"h", "t", "t", "p", ":", "/", "/", "x", ".", "c", "o", "m", "/", "a">>
L_U == <<"h", "t", "t", "p", ":", "/", "/", "x", ".", "c", "o", "m", "/", "?", "u", "t", "m", "_", "s", "o", "u", "r", "c", "e", "=", "a">>
L_BLOG == <<"h", "t", "t", "p", ":", "/", "/", "b", "l", "o", "g", ".", "c", "o", "m", "/", "p">>
L_REAL == <<"h", "t", "t", "p", ":", "/", "/", "r", "e", "a", "l", "-", "a", "r", "t", "i", "c", "l", "e", ".", "c", "o", "m", "/", "x">>
L_AGG == <<"h", "t", "t", "p", ":", "/", "/", "a", "g", "g", "r", "e", "g", "a", "t", "o", "r", ".", "c", "o", "m", "/", "y">>
FEED_URL == <<"h", "t", "t", "p", ":", "/", "/", "b", "l", "o", "g", ".", "c", "o", "m", "/", "f", "e", "e", "d">>
SHORT_URL == <<"h", "t", "t", "p", ":", "/", "/", "b", "i", "t", ".", "l", "y", "/", "x">>
GUID == <<"g", "u", "i", "d", "-", "1">>

TITLE_HELLO == <<"H", "e", "l", "l", "o", " ", "W", "o", "r", "l", "d">>
\* a title that quotes the link as the post will display it
TITLE_WITH_LINK == <<"S", "e", "e", " ", "h", "t", "t", "p", ":", "/", "/", "x", ".", "c", "o", "m", "/", "?", "u", "t", "m", "_", "s", "o", "u", "r", "c", "e", "=", "a">>
TITLE_LONG == Rep("A", 300)
TITLE_WORDS == Rep("B", 120) \o <<" ">> \o Rep("C", 120) \o <<" ">> \o Rep("D", 40)

SENTENCE_1 == <<"F", "i", "r", "s", "t", " ", "o", "n", "e", ".">>
SENTENCE_2 == <<"S", "e", "c", "o", "n", "d", " ", "o", "n", "e", " ", "h", "e", "r", "e", ".">>
SENTENCE_LONG == Rep("e", 120) \o <<" ">> \o Rep("f", 100)

IMG_1 == <<"i", ".", "c", "o", "/", "1">>
IMG_2 == <<"i", ".", "c", "o", "/", "2">>
IMG_3 == <<"i", ".", "c", "o", "/", "3">>
IMG_4 == <<"i", ".", "c", "o", "/", "4">>
IMG_5 == <<"i", ".", "c", "o", "/", "5">>
IMG_6 == <<"i", ".", "c", "o", "/", "6">>
IMG_7 == <<"i", ".", "c", "o", "/", "7">>

\* a media_thumbnail descriptor and an <img>, with numeric attributes
Thumb(url, w, h) == [url |-> url, width |-> w, height |-> h, numeric |-> TRUE]
Img(src, w, h) == [src |-> src, width |-> w, height |-> h, numeric |-> TRUE]

Item(title, link, links, anchors, sentances, media_thumbnail, imgs) ==
    [title |-> title, link |-> link, links |-> links, anchors |-> anchors, guid |-> GUID,
     sentances |-> sentances, media_thumbnail |-> media_thumbnail, imgs |-> imgs]

FetchedImages ==
    { [kind |-> "exception", width |-> 0, height |-> 0],
      [kind |-> "not_image", width |-> 0, height |-> 0],
      [kind |-> "image", width |-> 640, height |-> 480],
      [kind |-> "image", width |-> 500, height |-> 2000] }

FetchFails == [kind |-> "exception", width |-> 0, height |-> 0]

MetaImages ==
    { NoMetaImage,
      [kind |-> "url", url |-> IMG_5, width |-> 0, height |-> 0, complete |-> FALSE],
      [kind |-> "dict", url |-> IMG_5, width |-> 150, height |-> 150, complete |-> TRUE],
      [kind |-> "dict", url |-> IMG_5, width |-> 600, height |-> 600, complete |-> TRUE],
      [kind |-> "dict", url |-> IMG_5, width |-> 600, height |-> 0, complete |-> FALSE] }

PageImgs ==
    { <<>>,
      <<Img(IMG_6, 800, 800)>>,
      <<Img(IMG_6, 100, 100), Img(IMG_7, 1000, 200)>> }

EmptyPage == [fetch |-> "ok", meta_image |-> NoMetaImage, imgs |-> <<>>]

Env(remote_fetch, page, fetched, oembed, bitly_kind, short_url) ==
    [remote_fetch |-> remote_fetch, page |-> page, fetched |-> fetched, oembed |-> oembed,
     bitly |-> [kind |-> bitly_kind, url |-> SHORT_URL], short_url |-> short_url]

PlainEnv == Env(TRUE, EmptyPage, FetchFails, "none", "ok", None)

\* items for the permalink resolver
LinkItems ==
    { Item(TITLE_HELLO, l, ls, as, <<>>, <<>>, <<>>) :
        l \in {None, L_A, L_BLOG},
        ls \in { <<>>,
                 <<[href |-> None]>>,
                 <<[href |-> L_AGG], [href |-> L_BLOG]>>,
                 <<[href |-> L_REAL], [href |-> L_AGG]>> },
        as \in { <<>>,
                 <<[rel |-> "bookmark", href |-> L_REAL]>>,
                 <<[rel |-> "", href |-> None]>>,
                 <<[rel |-> "permalink", href |-> None], [rel |-> "", href |-> L_BLOG]>> } }

\* items for the composer
TextItems ==
    { Item(t, l, <<>>, <<>>, ss, <<>>, <<>>) :
        t \in {TITLE_HELLO, TITLE_WITH_LINK, TITLE_LONG, TITLE_WORDS, <<>>},
        l \in {L_A, L_U},
        ss \in { <<>>, <<SENTENCE_1, SENTENCE_2>>, <<SENTENCE_LONG, SENTENCE_1>> } }

BitlyKinds == {"ok", "http_error", "api_error", "bad_json", "exception"}

TextEnv(k, short_url) == Env(TRUE, EmptyPage, FetchFails, "none", k, short_url)

\* every title and summary with a link the post shows whole, and every answer of the
\* shortening service for the titles within the budget
TextInputs ==
    { [item |-> Item(t, L_U, <<>>, <<>>, ss, <<>>, <<>>), env |-> TextEnv("http_error", None)] :
        t \in {TITLE_HELLO, TITLE_WITH_LINK, TITLE_LONG, TITLE_WORDS, <<>>},
        ss \in { <<>>, <<SENTENCE_1, SENTENCE_2>>, <<SENTENCE_LONG, SENTENCE_1>> } }
    \cup
    { [item |-> Item(t, l, <<>>, <<>>, <<SENTENCE_1, SENTENCE_2>>, <<>>, <<>>), env |-> TextEnv(k, None)] :
        t \in {TITLE_HELLO, TITLE_WITH_LINK}, l \in {L_A, L_U}, k \in BitlyKinds }
    \cup
    { [item |-> Item(TITLE_HELLO, L_A, <<>>, <<>>, <<SENTENCE_1, SENTENCE_2>>, <<>>, <<>>),
       env  |-> TextEnv("exception", SHORT_URL)] }

OembedKinds == {"none", "ok", "http_error", "exception"}

VideoInputs ==
    { [item |-> Item(TITLE_HELLO, L_A, <<>>, <<>>, <<>>, <<>>, <<>>),
       env  |-> Env(TRUE, EmptyPage, FetchFails, o, "ok", None)] : o \in OembedKinds }

LinkInputs == { [item |-> it, env |-> PlainEnv] : it \in LinkItems }

\* items and pages for the thumbnail engine
MediaThumbnails ==
    { <<>>,
      <<Thumb(IMG_1, 500, 500)>>,
      <<Thumb(IMG_1, 150, 500)>>,
      <<Thumb(IMG_1, 0, 0)>>,
      <<Thumb(IMG_1, 500, 2000), Thumb(IMG_2, 300, 300)>>,
      <<[url |-> IMG_1, width |-> 0, height |-> 0, numeric |-> FALSE], Thumb(IMG_2, 300, 300)>> }

SummaryImgs ==
    { <<>>,
      <<Img(IMG_3, 400, 400)>>,
      <<Img(IMG_3, 0, 0)>>,
      <<Img(IMG_3, 1200, 300), Img(IMG_4, 250, 250)>> }

ThumbItem(m, i) == Item(TITLE_HELLO, L_A, <<>>, <<>>, <<>>, m, i)

ThumbEnv(remote_fetch, page, fetched) == Env(remote_fetch, page, fetched, "none", "ok", None)

\* the sources of the local phase: every descriptor list with every summary, with
\* and without remote fetch, and every answer of the image fetch where one is made
LocalInputs ==
    { [item |-> ThumbItem(m, i), env |-> ThumbEnv(rf, EmptyPage, [kind |-> "image", width |-> 640, height |-> 480])] :
        m \in MediaThumbnails, i \in SummaryImgs, rf \in BOOLEAN }
    \cup
    { [item |-> ThumbItem(m, <<Img(IMG_3, 0, 0)>>), env |-> ThumbEnv(TRUE, EmptyPage, fe)] :
        m \in {<<>>, <<Thumb(IMG_1, 0, 0)>>}, fe \in FetchedImages }

\* the sources of the remote phase: every meta image with every page, after a local
\* phase with and without a thumbnail
RemoteInputs ==
    { [item |-> ThumbItem(m, <<>>),
       env  |-> ThumbEnv(TRUE, [fetch |-> "ok", meta_image |-> mi, imgs |-> pi],
                         [kind |-> "image", width |-> 640, height |-> 480])] :
        m \in {<<>>, <<Thumb(IMG_1, 500, 500)>>}, mi \in MetaImages, pi \in PageImgs }
    \cup
    { [item |-> ThumbItem(<<>>, <<>>),
       env  |-> ThumbEnv(TRUE, [fetch |-> "ok", meta_image |-> mi, imgs |-> <<>>], fe)] :
        mi \in {m \in MetaImages : m.kind = "url"}, fe \in FetchedImages }
    \cup
    { [item |-> ThumbItem(<<>>, <<>>),
       env  |-> ThumbEnv(TRUE, [fetch |-> "exception", meta_image |-> NoMetaImage, imgs |-> <<>>],
                         FetchFails)] }

\* the items a feed is polled with, by the part of the program they exercise
Inputs(corpus) ==
    CASE corpus = "links"      -> LinkInputs
      [] corpus = "text"       -> TextInputs
      [] corpus = "video"      -> VideoInputs
      [] corpus = "thumbnails" -> LocalInputs \cup RemoteInputs

\* feeds
BaseFeed ==
    [feed_url |-> FEED_URL, linked_list_mode |-> FALSE, format_mode |-> "TITLE_ONLY",
     include_summary |-> FALSE, include_thumb |-> TRUE, include_video |-> FALSE,
     image_strategy_blacklist |-> {}, last_image_hash |-> None,
     bitly_login |-> "", bitly_api_key |-> ""]

Feeds(corpus) ==
    CASE corpus = "links" ->
            { [BaseFeed EXCEPT !.linked_list_mode = b, !.feed_url = u, !.format_mode = m] :
                b \in BOOLEAN, u \in {None, FEED_URL}, m \in {"TITLE_ONLY", "TITLE_THEN_LINK"} }
      [] corpus = "text" ->
            { [BaseFeed EXCEPT !.format_mode = m, !.include_summary = s,
                               !.bitly_login = c, !.bitly_api_key = c] :
                m \in {"TITLE_ONLY", "TITLE_THEN_LINK"}, s \in BOOLEAN, c \in {"", "own"} }
      [] corpus = "video" ->
            { [BaseFeed EXCEPT !.include_video = v] : v \in BOOLEAN }
      [] corpus = "thumbnails" ->
            { [BaseFeed EXCEPT !.image_strategy_blacklist = bl, !.last_image_hash = h] :
                bl \in { {}, {"html"}, {"rss", "content"}, {"meta", "html"} },
                h \in { None, dict_hash(image_dict(IMG_1, 500, 500)) } }

Corpora == {"links", "text", "video", "thumbnails"}

\* ------------------------------------------------------------------- state
VARIABLES
    feed,      \* the Feed entity
    item,      \* the feed item of the current pass
    env,       \* what the remote collaborators answer in the current pass
    entry,     \* the kwargs prepare_entry_from_item has built so far (the Entry)
    post,      \* the post format_for_adn returned
    html,      \* what build_html_from_post returned
    pc,        \* where the current pass stands
    outcome,   \* the exception that ended the current pass, and where it was raised
    gate,      \* the check_thumbnail call of the last step
    resolved,  \* what get_link_for_item did for the item of the current pass
    passNo,    \* passes begun
    corpus,    \* the items the feed is polled with
    replay     \* the current pass has the item and the answers of the pass before it

vars == <<feed, item, env, entry, post, html, pc, outcome, gate, resolved, passNo, corpus, replay>>

NoEntry ==
    [guid |-> <<>>, title |-> <<>>, summary |-> <<>>, link |-> None, thumbnail |-> NoThumbnail,
     images_in_html |-> <<>>, video_oembed |-> FALSE, short_url |-> None]

NoGate == [called |-> FALSE, thumbnail |-> NoThumbnail, valid |-> FALSE]
NoOutcome == [exc |-> "", where |-> ""]

Init ==
    /\ corpus \in Corpora
    /\ feed \in Feeds(corpus)
    /\ item = Item(<<>>, None, <<>>, <<>>, <<>>, <<>>, <<>>)
    /\ env = PlainEnv
    /\ entry = NoEntry
    /\ post = NoPost
    /\ html = <<>>
    /\ pc = "start"
    /\ outcome = NoOutcome
    /\ gate = NoGate
    /\ resolved = Ret(None)
    /\ passNo = 0
    /\ replay = FALSE

\* the gate call of a phase that found `thumbnail`
gate_call(f, thumbnail) ==
    IF thumbnail = NoThumbnail THEN NoGate
    ELSE [called |-> TRUE, thumbnail |-> thumbnail, valid |-> check_thumbnail(f, thumbnail).valid]

feed_after_gate(f, thumbnail) ==
    IF thumbnail = NoThumbnail THEN f
    ELSE [f EXCEPT !.last_image_hash = check_thumbnail(f, thumbnail).last_image_hash]

\* prepare_entry_from_item, up to the end of prepare_entry_from_item_local
PrepareLocal(in) ==
    LET found     == get_link_for_item(feed, in.item)
        link      == found.ret
        thumbnail == local_thumbnail(feed, in.item, in.env)
        call      == gate_call(feed, thumbnail)
    IN  /\ pc \in {"start", "rendered", "raised"}
        /\ passNo < MaxPasses
        /\ passNo' = passNo + 1
        /\ corpus' = corpus
        /\ resolved' = found
        /\ item' = in.item
        /\ env' = in.env
        /\ replay' = (passNo > 0 /\ in.item = item /\ in.env = env)
        /\ post' = NoPost
        /\ html' = <<>>
        /\ IF found.exc # ""
           THEN /\ pc' = "raised"
                /\ outcome' = [exc |-> found.exc, where |-> "get_link_for_item"]
                /\ entry' = NoEntry
                /\ gate' = NoGate
                /\ feed' = feed
           ELSE IF item_skipped(in.item, link)
           THEN \* the local phase returned None, and line 597 calls None.get
                /\ pc' = "raised"
                /\ outcome' = [exc |-> "AttributeError", where |-> "prepare_entry_from_item"]
                /\ entry' = NoEntry
                /\ gate' = NoGate
                /\ feed' = feed
           ELSE /\ pc' = "remote"
                /\ outcome' = NoOutcome
                /\ gate' = call
                /\ feed' = feed_after_gate(feed, thumbnail)
                /\ entry' = [NoEntry EXCEPT
                                !.guid = guid_for_item(in.item),
                                !.title = Slice(in.item.title, 0, TITLE_STORE_CHARS),
                                !.summary = in.item.sentances,
                                !.link = link,
                                !.thumbnail = IF call.valid THEN thumbnail ELSE NoThumbnail,
                                !.short_url = in.env.short_url]

\* prepare_entry_from_item, from prepare_entry_from_item_remote to its return
PrepareRemote ==
    LET has_thumbnail == ~Falsy(entry.thumbnail.thumbnail_image_url)
        thumbnail     == remote_thumbnail(feed, has_thumbnail, env)
        call          == gate_call(feed, thumbnail)
    IN  /\ pc = "remote"
        /\ pc' = "prepared"
        /\ gate' = call
        /\ feed' = feed_after_gate(feed, thumbnail)
        /\ entry' = [entry EXCEPT
                        !.thumbnail = IF call.valid THEN thumbnail ELSE @,
                        !.images_in_html = page_data_for(env).images_in_html,
                        !.video_oembed = video_oembed_for(feed, env)]
        /\ UNCHANGED <<item, env, post, html, outcome, resolved, passNo, corpus, replay>>

FormatForAdn ==
    \E done \in {format_for_adn(feed, entry, item, env.bitly)} :
        /\ pc = "prepared"
        /\ gate' = NoGate
        /\ feed' = done.feed
        /\ entry' = [entry EXCEPT !.short_url = done.short_url]
        /\ post' = done.post
        /\ IF done.exc # ""
           THEN /\ pc' = "raised"
                /\ outcome' = [exc |-> done.exc, where |-> done.where]
           ELSE /\ pc' = "formatted"
                /\ outcome' = NoOutcome
        /\ UNCHANGED <<item, env, html, resolved, passNo, corpus, replay>>

BuildHtmlFromPost ==
    /\ pc = "formatted"
    /\ pc' = "rendered"
    /\ html' = build_html_from_post(post)
    /\ gate' = NoGate
    /\ UNCHANGED <<feed, item, env, entry, post, outcome, resolved, passNo, corpus, replay>>

Next ==
    \/ \E in \in Inputs(corpus) : PrepareLocal(in)
    \/ PrepareRemote
    \/ FormatForAdn
    \/ BuildHtmlFromPost

Spec == Init /\ [][Next]_vars

\* ------------------------------------------------------------------ claims
\* the width and the height of a thumbnail are each within [200, 1000]
WithinBounds(t) ==
    /\ t.thumbnail_image_width \in MIN_IMAGE_DIMENSION..MAX_IMAGE_DIMENSION
    /\ t.thumbnail_image_height \in MIN_IMAGE_DIMENSION..MAX_IMAGE_DIMENSION

\* C1: every thumbnail the pipeline selects (offers to check_thumbnail) or attaches
\* to the entry, from any source, has width and height each in [200, 1000].
C1_SelectedThumbnailsFit ==
    /\ gate.called => WithinBounds(gate.thumbnail)
    /\ entry.thumbnail # NoThumbnail => WithinBounds(entry.thumbnail)

\* C2: a pass that repeats the pass before it (same feed, same item, same page
\* metadata and remote answers) attaches no thumbnail to the entry.
C2_ReplayAttachesNoThumbnail ==
    (replay /\ pc \in {"remote", "prepared"}) => entry.thumbnail = NoThumbnail

\* C3: in every step, last_image_hash is the only field of the feed that changes; it
\* changes only by a check_thumbnail call that is offered a thumbnail whose hash
\* differs from the stored one, to that hash, and the call answers True; a call that
\* is offered the stored hash answers False and leaves the feed as it was.
C3_OnlyFingerprintModified ==
    [][ /\ [feed' EXCEPT !.last_image_hash = feed.last_image_hash] = feed
        /\ (feed'.last_image_hash # feed.last_image_hash =>
                /\ gate'.called
                /\ gate'.valid
                /\ dict_hash(gate'.thumbnail) # feed.last_image_hash
                /\ feed'.last_image_hash = dict_hash(gate'.thumbnail))
        /\ (gate'.called /\ dict_hash(gate'.thumbnail) = feed.last_image_hash =>
                ~gate'.valid /\ feed' = feed)
      ]_vars

Composed == pc \in {"formatted", "rendered"}

\* the entity marks its own display text inside the text
Anchored(text, e) ==
    /\ 0 <= e.pos
    /\ e.pos + e.len <= Len(text)
    /\ SubSeq(text, e.pos + 1, e.pos + e.len) = e.text

Disjoint(a, b) == a.pos + a.len <= b.pos \/ b.pos + b.len <= a.pos

\* the display text of the post's one link candidate
CandidateText ==
    IF feed.format_mode = "TITLE_THEN_LINK" THEN ellipse_text(post.link, max_link_chars)
    ELSE entry.title

\* C4: every link entity of a composed post lies inside the text and marks exactly its
\* display text, no two entities overlap, and a candidate whose display text does
\* not occur in the final text yields no entity.
C4_EntityInvariant ==
    Composed =>
        /\ \A i \in DOMAIN post.entities : Anchored(post.text, post.entities[i])
        /\ \A i, j \in DOMAIN post.entities :
                i # j => Disjoint(post.entities[i], post.entities[j])
        /\ \A i \in DOMAIN post.entities : post.entities[i].text = CandidateText
        /\ (\A k \in 0..Len(post.text) : ~OccursAt(post.text, CandidateText, k))
                => post.entities = <<>>

\* C4 witness: a composed post whose entity starts inside the text
C4_Witness ==
    /\ Composed
    /\ post.entities # <<>>
    /\ post.entities[1].pos > 0

\* C5: the text of a composed post has at most MAX_CHARS characters, in every mode.
C5_TextWithinBudget == Composed => Len(post.text) <= MAX_CHARS

\* C5 witness: a title over the budget, composed in TITLE_THEN_LINK mode, fills the
\* budget exactly
C5_Witness ==
    /\ Composed
    /\ feed.format_mode = "TITLE_THEN_LINK"
    /\ Len(entry.title) > MAX_CHARS
    /\ Len(post.text) = MAX_CHARS

\* C6: in TITLE_THEN_LINK mode the text ends with a space and the displayed link, and
\* the one link entity is that trailing occurrence (pos + len = len(text)).
C6_LinkEntityIsTrailing ==
    (Composed /\ feed.format_mode = "TITLE_THEN_LINK") =>
        LET suffix == <<" ">> \o CandidateText
        IN  /\ Len(post.text) >= Len(suffix)
            /\ SliceFrom(post.text, Len(post.text) - Len(suffix)) = suffix
            /\ Len(post.entities) = 1
            /\ post.entities[1].text = CandidateText
            /\ post.entities[1].pos + post.entities[1].len = Len(post.text)

\* a TITLE_ONLY post without summary whose title is within the budget
TitleOnlyPost ==
    /\ Composed
    /\ feed.format_mode = "TITLE_ONLY"
    /\ ~feed.include_summary
    /\ Len(entry.title) <= MAX_CHARS

Tagged(link) ==
    IF (\E k \in 0..Len(link) : OccursAt(link, utm_medium, k) \/ OccursAt(link, utm_source, k))
    THEN link
    ELSE link \o <<(IF \E k \in 1..Len(link) : link[k] = "?" THEN "&" ELSE "?")>> \o utm_params

NoAnchor == [href |-> <<>>, pos |-> 0, content |-> <<>>]

Tags == {SPAN_OPEN, SPAN_CLOSE, A_OPEN, A_TARGET, A_CLOSE, BR}

\* the run of characters from index i up to the next tag is added to what `mode`
\* collects, then the tag is obeyed
RECURSIVE read_html(_, _, _, _, _, _)
read_html(markup, i, mode, text, anchors, cur) ==
    LET tags  == {j \in i..Len(markup) : markup[j] \in Tags}
        next  == IF tags = {} THEN Len(markup) + 1 ELSE CHOOSE j \in tags : \A k \in tags : j <= k
        run   == SubSeq(markup, i, next - 1)
        text1 == IF mode = "href" THEN text ELSE text \o run
        cur1  == IF mode = "href" THEN [cur EXCEPT !.href = @ \o run]
                 ELSE IF mode = "anchor" THEN [cur EXCEPT !.content = @ \o run]
                 ELSE cur
        tag   == markup[next]
    IN  IF next > Len(markup) THEN [text |-> text1, anchors |-> anchors]
        ELSE IF tag = A_OPEN
             THEN read_html(markup, next + 1, "href", text1, anchors, [NoAnchor EXCEPT !.pos = Len(text1)])
        ELSE IF tag = A_TARGET THEN read_html(markup, next + 1, "anchor", text1, anchors, cur1)
        ELSE IF tag = A_CLOSE THEN read_html(markup, next + 1, "text", text1, Append(anchors, cur1), cur1)
        ELSE IF tag = BR
             THEN read_html(markup, next + 1, mode,
                            IF mode = "href" THEN text1 ELSE Append(text1, "\n"),
                            anchors,
                            IF mode = "href" THEN [cur1 EXCEPT !.href = Append(@, "\n")]
                            ELSE IF mode = "anchor" THEN [cur1 EXCEPT !.content = Append(@, "\n")]
                            ELSE cur1)
        ELSE read_html(markup, next + 1, mode, text1, anchors, cur1)

UsableLink(it) == ~Falsy(it.link) \/ \E i \in DOMAIN it.links : ~Falsy(it.links[i].href)

\* C9: get_link_for_item raises for no feed and item, and returns null exactly when
\* the item offers no usable link.
C9_ResolverNeverRaises ==
    passNo > 0 =>
        /\ resolved.exc = ""
        /\ (resolved.ret = None) <=> ~UsableLink(item)

RemoteCollaborators ==
    {"get_image_from_url", "get_meta_data_for_url", "get_short_url", "find_video_oembed"}

\* C10: no pass is ended by an exception out of a remote collaborator (the image
\* fetch, the page fetch, the link shortener, the oembed lookup).
C10_RemoteFailureNeverAborts ==
    ~(pc = "raised" /\ outcome.where \in RemoteCollaborators)

\* ------------------------------------------------------------------ C11
\* C11: an item without a usable link, without a guid, or with a link or guid of more
\* than 500 characters is skipped: prepare_entry_from_item completes without raising
\* (and produces no entry data for it).
C11_MalformedItemSkipped ==
    (passNo > 0 /\ resolved.exc = "" /\ item_skipped(item, resolved.ret))
        => (outcome.exc = "" /\ entry = NoEntry)

\* ------------------------------------------------------------------ C12
\* C12: when the local phase has attached an rss or content thumbnail, the remote
\* phase offers nothing to check_thumbnail (so not the page's first image) and leaves
\* the attached thumbnail as it is.
C12_PageImageOnlyWithoutEarlierSource ==
    [][(pc = "remote" /\ pc' = "prepared" /\ entry.thumbnail # NoThumbnail)
            => (~gate'.called /\ entry'.thumbnail = entry.thumbnail)]_vars

\* ------------------------------------------------------------------ C13
\* the first alternate link, in list order, with a non-empty href (None without one)
RECURSIVE FirstHref(_)
FirstHref(links) ==
    IF links = <<>> THEN None
    ELSE IF ~Falsy(Head(links).href) THEN Head(links).href
    ELSE FirstHref(Tail(links))

\* C13: for an item without a direct link and with linked-list mode off,
\* get_link_for_item returns the first alternate link whose href is non-empty,
\* whatever the later alternate links hold.
C13_FirstAlternateLinkReturned ==
    (passNo > 0 /\ ~feed.linked_list_mode /\ Falsy(item.link) /\ FirstHref(item.links) # None)
        => resolved = Ret(FirstHref(item.links))

\* ------------------------------------------------------------------ C14
\* a descriptor whose width or height is no number
HasUnparsable(media_thumbnails) ==
    \E i \in DOMAIN media_thumbnails : ~media_thumbnails[i].numeric

\* a descriptor or a summary <img> whose stated dimensions fit
HasStatedFit(images) ==
    \E i \in DOMAIN images :
        images[i].numeric /\ image_fits(images[i].width, images[i].height)

\* C14: after an rss descriptor that cannot be parsed, the remaining descriptors and
\* the summary's images are still tried in the same pass: when one of them states
\* fitting dimensions, the local phase selects a thumbnail and offers it to the gate.
C14_ParseFailureIsLocal ==
    (/\ pc = "remote"
     /\ "rss" \notin feed.image_strategy_blacklist
     /\ HasUnparsable(item.media_thumbnail)
     /\ \/ HasStatedFit(item.media_thumbnail)
        \/ "content" \notin feed.image_strategy_blacklist /\ HasStatedFit(item.imgs))
        => gate.called

====
